---- MODULE Spec2Model ----
(***************************************************************************)
(* The tag-suggestion subsystem of the product-metadata service:           *)
(* AiService.suggestTags, AiService.parseTagsFromResponse and              *)
(* AiService.generateFallbackTags (backend/src/services/ai.service.ts).    *)
(*                                                                         *)
(* A JavaScript string is a sequence of one-character strings, so that     *)
(* regular-expression matching, JSON decoding, splitting, trimming and     *)
(* lowercasing are computed character by character as the code does.       *)
(***************************************************************************)
EXTENDS Integers, Sequences, FiniteSets, TLC

(***************************************************************************)
(* Strings.                                                                *)
(***************************************************************************)

\* A string literal as a sequence of characters.
chars(s) == [i \in 1..Len(s) |-> SubSeq(s, i, i)]

QUOTE == "\""
NL == "\n"
LBRACK == "["
RBRACK == "]"
COMMA == ","
SPACE == " "

\* Characters String.prototype.trim removes and the regex class \s matches.
WhiteSpace == {" ", "\t", "\n", "\r"}

UpperCase == chars("ABCDEFGHIJKLMNOPQRSTUVWXYZ")
LowerCase == chars("abcdefghijklmnopqrstuvwxyz")

\* String.prototype.toLowerCase on one character.
lowerChar(c) ==
  IF \E k \in 1..26 : UpperCase[k] = c
    THEN LowerCase[CHOOSE k \in 1..26 : UpperCase[k] = c]
    ELSE c

\* String.prototype.toLowerCase.
toLowerCase(s) == [i \in 1..Len(s) |-> lowerChar(s[i])]

\* String.prototype.trim.
trim(s) ==
  LET keep == {i \in 1..Len(s) : s[i] \notin WhiteSpace}
  IN IF keep = {} THEN <<>>
     ELSE SubSeq(s, CHOOSE i \in keep : \A k \in keep : i <= k,
                    CHOOSE i \in keep : \A k \in keep : i >= k)

\* Array.prototype.includes.
includes(arr, x) == \E i \in 1..Len(arr) : arr[i] = x

\* Array.prototype.slice(0, n).
slice0(arr, n) == IF Len(arr) <= n THEN arr ELSE SubSeq(arr, 1, n)

\* String.prototype.includes: sub occurs in s as a substring.
strIncludes(s, sub) ==
  \E i \in 1..(Len(s) - Len(sub) + 1) : SubSeq(s, i, i + Len(sub) - 1) = sub

\* Least element of a non-empty set of integers.
Min(S) == CHOOSE i \in S : \A k \in S : i <= k

\* String.prototype.split on the characters of seps, one separator at a time
\* (split("\n")): consecutive separators give empty pieces.
RECURSIVE splitOn(_, _)
splitOn(s, seps) ==
  LET at == {i \in 1..Len(s) : s[i] \in seps}
  IN IF at = {} THEN <<s>>
     ELSE <<SubSeq(s, 1, Min(at) - 1)>> \o splitOn(SubSeq(s, Min(at) + 1, Len(s)), seps)

\* String.prototype.split on the regex /[seps]+/: a run of separators is one
\* separator; a leading or trailing run gives an empty first or last piece.
RECURSIVE splitOnRuns(_, _)
splitOnRuns(s, seps) ==
  LET at == {i \in 1..Len(s) : s[i] \in seps}
  IN IF at = {} THEN <<s>>
     ELSE LET first == Min(at)
              rest == {i \in first..Len(s) : s[i] \notin seps}
              next == IF rest = {} THEN Len(s) + 1 ELSE Min(rest)
          IN <<SubSeq(s, 1, first - 1)>> \o splitOnRuns(SubSeq(s, next, Len(s)), seps)

(***************************************************************************)
(* Response Parser: AiService.parseTagsFromResponse.                       *)
(***************************************************************************)

\* response.match(/\[.*?\]/): the leftmost "[" that a "]" follows on the same
\* line ("." matches no line terminator), up to the nearest such "]" (non-greedy).
\* <<>> stands for null (no match); a match has at least two characters.
jsonMatch(response) ==
  LET closes(i) == {j \in (i + 1)..Len(response) :
                      /\ response[j] = RBRACK
                      /\ \A k \in (i + 1)..(j - 1) : response[k] \notin {NL, "\r"}}
      starts == {i \in 1..Len(response) : response[i] = LBRACK /\ closes(i) # {}}
  IN IF starts = {} THEN <<>>
     ELSE SubSeq(response, Min(starts), Min(closes(Min(starts))))

Digits == {"0", "1", "2", "3", "4", "5", "6", "7", "8", "9"}

\* A decoded JSON value: a string with its characters, or a number.
JsonString(cs) == [type |-> "string", val |-> cs]
JsonNumber == [type |-> "number", val |-> <<>>]

\* The scanner of JSON.parse over the text of a "[...]" match, from position i
\* in state st with the string being read in cur and the elements decoded so
\* far in elems. States: "value" (an element or, with no element yet, the
\* closing bracket is expected), "comma" (an element must follow a comma),
\* "str" (inside a string), "zero" and "num" (inside a number), "after" (a
\* comma or the closing bracket is expected). The texts modelled hold no "\",
\* "{", "-", "." or letter outside a string between the brackets, so escapes,
\* objects, literals and signed or fractional numbers do not arise; any other
\* character where a value, comma or bracket is expected is a SyntaxError.
RECURSIVE jsonScan(_, _, _, _, _)
jsonScan(s, i, st, cur, elems) ==
  LET c == s[i]
      Fail == [ok |-> FALSE, value |-> <<>>]
  IN IF i = Len(s)
       THEN CASE st = "value" -> [ok |-> TRUE, value |-> elems]
              [] st = "after" -> [ok |-> TRUE, value |-> elems]
              [] st \in {"num", "zero"} -> [ok |-> TRUE, value |-> Append(elems, JsonNumber)]
              [] OTHER -> Fail
     ELSE CASE st \in {"value", "comma"} ->
                 IF c \in WhiteSpace THEN jsonScan(s, i + 1, st, cur, elems)
                 ELSE IF c = QUOTE THEN jsonScan(s, i + 1, "str", <<>>, elems)
                 ELSE IF c = "0" THEN jsonScan(s, i + 1, "zero", cur, elems)
                 ELSE IF c \in Digits THEN jsonScan(s, i + 1, "num", cur, elems)
                 ELSE Fail
            [] st = "str" ->
                 IF c = QUOTE
                   THEN jsonScan(s, i + 1, "after", <<>>, Append(elems, JsonString(cur)))
                 ELSE IF c = "\t" THEN Fail
                 ELSE jsonScan(s, i + 1, "str", Append(cur, c), elems)
            [] st \in {"num", "zero"} ->
                 IF c \in Digits /\ st = "num" THEN jsonScan(s, i + 1, "num", cur, elems)
                 ELSE IF c \in WhiteSpace
                   THEN jsonScan(s, i + 1, "after", cur, Append(elems, JsonNumber))
                 ELSE IF c = COMMA
                   THEN jsonScan(s, i + 1, "comma", cur, Append(elems, JsonNumber))
                 ELSE Fail
            [] st = "after" ->
                 IF c \in WhiteSpace THEN jsonScan(s, i + 1, "after", cur, elems)
                 ELSE IF c = COMMA THEN jsonScan(s, i + 1, "comma", cur, elems)
                 ELSE Fail
            [] OTHER -> Fail

\* JSON.parse(jsonMatch[0]): ok = FALSE is a thrown SyntaxError; otherwise value
\* is the decoded array (a text that starts with "[" decodes to an array or not
\* at all).
JSONparse(m) == jsonScan(m, 2, "value", <<>>, <<>>)

\* tags.every((tag) => typeof tag === "string").
everyString(arr) == \A i \in 1..Len(arr) : arr[i].type = "string"

\* line.match(/"([^"]+)"/g) from position i on: a quote, one or more
\* characters that are not quotes, a quote; matches do not overlap, and the
\* scan resumes after each one. The matches keep their quotes.
RECURSIVE quotedMatches(_, _)
quotedMatches(line, i) ==
  IF i > Len(line) THEN <<>>
  ELSE LET close == {j \in (i + 2)..Len(line) : line[j] = QUOTE}
       IN IF line[i] = QUOTE /\ i + 1 <= Len(line) /\ line[i + 1] # QUOTE /\ close # {}
            THEN <<SubSeq(line, i, Min(close))>> \o quotedMatches(line, Min(close) + 1)
            ELSE quotedMatches(line, i + 1)

\* match.replace(/"/g, "").trim().toLowerCase().
cleanTag(match) ==
  toLowerCase(trim(SelectSeq(match, LAMBDA c : c # QUOTE)))

\* pushMatches with the !tags.includes(tag) test left out.
RECURSIVE pushMatchesNoDedup(_, _)
pushMatchesNoDedup(tags, matches) ==
  IF matches = <<>> THEN tags
  ELSE LET tag == cleanTag(Head(matches))
       IN pushMatchesNoDedup(IF tag # <<>> THEN Append(tags, tag) ELSE tags, Tail(matches))

\* The quotedMatches.forEach body over the matches of one line:
\* push each cleaned tag that is non-empty and not yet in tags.
RECURSIVE pushMatches(_, _)
pushMatches(tags, matches) ==
  IF matches = <<>> THEN tags
  ELSE LET tag == cleanTag(Head(matches))
       IN pushMatches(IF tag # <<>> /\ ~includes(tags, tag) THEN Append(tags, tag) ELSE tags,
                      Tail(matches))

\* The for (const line of lines) loop.
RECURSIVE scanLines(_, _)
scanLines(tags, lines) ==
  IF lines = <<>> THEN tags
  ELSE scanLines(pushMatches(tags, quotedMatches(Head(lines), 1)), Tail(lines))

\* response.split("\n").filter((line) => line.trim()).
responseLines(response) ==
  SelectSeq(splitOn(response, {NL}), LAMBDA line : trim(line) # <<>>)

\* The permissive path (lines 76 to 95): ok = FALSE is the thrown
\* "Could not parse tags from response".
permissiveParse(response) ==
  LET tags == scanLines(<<>>, responseLines(response))
  IN IF Len(tags) > 0 THEN [ok |-> TRUE, tags |-> slice0(tags, 5)]
     ELSE [ok |-> FALSE, tags |-> <<>>]

\* The strings of a decoded array of strings.
stringsOf(arr) == [i \in 1..Len(arr) |-> arr[i].val]

\* parseTagsFromResponse with the permissive path tried first.
parsePermissiveFirst(response) ==
  LET m == jsonMatch(response)
      parsed == JSONparse(m)
      p == permissiveParse(response)
  IN IF p.ok THEN p
     ELSE IF m # <<>> /\ parsed.ok /\ everyString(parsed.value)
       THEN [ok |-> TRUE, tags |-> slice0(stringsOf(parsed.value), 5)]
     ELSE [ok |-> FALSE, tags |-> <<>>]

\* parseTagsFromResponse: ok = FALSE is the Error the catch block rethrows.
\* A SyntaxError of JSON.parse is thrown inside the same try block, so it
\* reaches the catch block without the permissive path being run.
parseTagsFromResponse(response) ==
  LET m == jsonMatch(response)
      parsed == JSONparse(m)
      Throw == [ok |-> FALSE, tags |-> <<>>]
  IN IF m # <<>>
       THEN IF ~parsed.ok THEN Throw
            ELSE IF everyString(parsed.value)
              THEN [ok |-> TRUE, tags |-> slice0(stringsOf(parsed.value), 5)]
            ELSE permissiveParse(response)
     ELSE permissiveParse(response)

(***************************************************************************)
(* Fallback Heuristic Extractor: AiService.generateFallbackTags.           *)
(***************************************************************************)

\* The keywords array, in its order.
keywords ==
  << chars("electronics"), chars("gadget"), chars("device"), chars("tech"),
     chars("digital"), chars("wireless"), chars("bluetooth"), chars("smart"),
     chars("portable"), chars("mobile"), chars("home"), chars("kitchen"),
     chars("outdoor"), chars("sports"), chars("fitness"), chars("clothing"),
     chars("fashion"), chars("accessory"), chars("beauty"), chars("health"),
     chars("book"), chars("education"), chars("toy"), chars("game"),
     chars("entertainment"), chars("tool"), chars("automotive"), chars("garden"),
     chars("office"), chars("computer") >>

\* The words the nameWords filter drops.
stopWords == {chars("the"), chars("and"), chars("for"), chars("with")}

\* The generic tags pushed when no keyword matched.
genericTags == <<chars("product"), chars("item"), chars("merchandise")>>

\* fallbackText with name and description joined without the space.
fallbackTextNoSpace(name, description) == toLowerCase(name \o description)

\* `${name} ${description}`.toLowerCase().
fallbackText(name, description) == toLowerCase(name \o <<SPACE>> \o description)

\* keywords.forEach over keywords[k..]: push each keyword that text includes and
\* fallbackTags does not.
RECURSIVE pushKeywords(_, _, _)
pushKeywords(fallbackTags, text, k) ==
  IF k > Len(keywords) THEN fallbackTags
  ELSE pushKeywords(
         IF strIncludes(text, keywords[k]) /\ ~includes(fallbackTags, keywords[k])
           THEN Append(fallbackTags, keywords[k]) ELSE fallbackTags,
         text, k + 1)

\* name.toLowerCase().split(/[\s\-_]+/).filter(length > 2 and not a stop word).
nameWords(name) ==
  SelectSeq(splitOnRuns(toLowerCase(name), WhiteSpace \cup {"-", "_"}),
            LAMBDA word : Len(word) > 2 /\ word \notin stopWords)

\* pushWords with the !fallbackTags.includes(word) test left out.
RECURSIVE pushWordsNoDedup(_, _)
pushWordsNoDedup(fallbackTags, words) ==
  IF words = <<>> THEN fallbackTags
  ELSE pushWordsNoDedup(
         IF Len(fallbackTags) < 5 THEN Append(fallbackTags, Head(words)) ELSE fallbackTags,
         Tail(words))

\* nameWords.forEach: push each word fallbackTags does not include while it
\* holds fewer than 5 entries.
RECURSIVE pushWords(_, _)
pushWords(fallbackTags, words) ==
  IF words = <<>> THEN fallbackTags
  ELSE pushWords(
         IF ~includes(fallbackTags, Head(words)) /\ Len(fallbackTags) < 5
           THEN Append(fallbackTags, Head(words)) ELSE fallbackTags,
         Tail(words))

\* generateFallbackTags with the generic tags pushed whether or not a keyword
\* matched.
fallbackAlwaysGeneric(name, description) ==
  LET matched == pushKeywords(<<>>, fallbackText(name, description), 1)
  IN slice0(pushWords(genericTags \o matched, nameWords(name)), 5)

\* generateFallbackTags with the name's words pushed before the keywords.
fallbackWordsFirst(name, description) ==
  LET words == pushWords(<<>>, nameWords(name))
      matched == pushKeywords(words, fallbackText(name, description), 1)
      seeded == IF Len(matched) = 0 THEN genericTags ELSE matched
  IN slice0(seeded, 5)

\* generateFallbackTags with the words taken from the name and the description.
fallbackDescriptionWords(name, description) ==
  LET matched == pushKeywords(<<>>, fallbackText(name, description), 1)
      seeded == IF Len(matched) = 0 THEN genericTags ELSE matched
  IN slice0(pushWords(seeded, nameWords(name \o <<SPACE>> \o description)), 5)

generateFallbackTags(name, description) ==
  LET matched == pushKeywords(<<>>, fallbackText(name, description), 1)
      seeded == IF Len(matched) = 0 THEN genericTags ELSE matched
  IN slice0(pushWords(seeded, nameWords(name)), 5)

(***************************************************************************)
(* The inputs of one call and the behaviours of the model endpoint.        *)
(***************************************************************************)

\* The longest response text built from Tokens.
MaxToks == 3

\* The pieces response texts are built from.
Tokens ==
  { <<LBRACK>>, <<RBRACK>>, <<COMMA>>, <<QUOTE>>, <<NL>>, <<"1">>,
    chars("\"a\""), chars("\" B\""), chars("\"\"") }

\* Every concatenation of exactly n tokens.
RECURSIVE TokenTexts(_)
TokenTexts(n) ==
  IF n = 0 THEN {<<>>}
  ELSE {t \o k : t \in TokenTexts(n - 1), k \in Tokens}

\* Response texts of the specification's examples and of the shapes the
\* parser distinguishes that MaxToks tokens do not reach.
SampleTexts ==
  { chars("Here are tags: [\"audio\",\"wireless\",\"bluetooth\",\"portable\",\"smart\"]"),
    chars("line1: \"gadget\" \"tech\"\nline2: \"gadget\" \"mobile\""),
    chars("I cannot help with that."),
    chars("[\"a\",\"a\"]"),
    chars("[\"a\",\"b\",\"c\",\"d\",\"e\",\"f\"]"),
    chars("[tag1, tag2] \"x\""),
    chars("[\"audio\", \"smart\",] \"Audio\""),
    chars("[1, \"b\"] \"X \" \"b\""),
    chars("[\"x\"] and [\"y\"]"),
    chars("\"a\" \"b\" \"c\"\n\"d\" \"e\" \"f\"") }

\* The texts the model may generate.
Texts == UNION {TokenTexts(n) : n \in 0..MaxToks} \cup SampleTexts

\* The (name, description) pairs a call is made with; all pass TagSuggestionDto.
Calls ==
  { <<chars("Xyzzyx"), chars("Qwerty")>>,
    <<chars("Bluetooth Speaker"), chars("A wireless portable speaker")>>,
    <<chars("Smart Watch"), chars("Fitness tracking smartwatch with heart rate monitor")>>,
    <<chars("Smart Home-Kitchen_Tool the Gadget"), chars("tech device mobile")>> }

\* The ways fetch rejects: the connection is refused, reset, or not established
\* within the operating system's limit.
FetchErrors == {"ECONNREFUSED", "ECONNRESET", "ETIMEDOUT"}

\* The HTTP statuses the endpoint answers with.
Statuses == {200, 404, 500}

\* What await response.json() resolves to: null, an object with no "response"
\* member, one whose "response" is a number, or one whose "response" is a text.
JsonBodies ==
  {[kind |-> "null", response |-> <<>>],
   [kind |-> "noResponse", response |-> <<>>],
   [kind |-> "numberResponse", response |-> <<>>]}
  \cup {[kind |-> "text", response |-> t] : t \in Texts}

NoData == [kind |-> "none", response |-> <<>>]

(***************************************************************************)
(* Suggestion Orchestrator: AiService.suggestTags, one call.               *)
(***************************************************************************)

VARIABLES
  name,         \* the call's first argument
  description,  \* the call's second argument
  pc,           \* "start", "awaitFetch", "awaitJson" or "done"
  requests,     \* the number of fetch calls issued
  status,       \* the HTTP status of the response, 0 before it
  data,         \* what response.json() resolved to
  parsed,       \* the application of parseTagsFromResponse and its outcome
  error,        \* what the catch block caught: "none", a fetch error, "status", "json", "type", "parse"
  ret           \* how the call settled: pending, returned (with tags) or thrown

\* The state around the call, used by the specifications of the route and of
\* concurrent calls below.
VARIABLES
  http,         \* the POST /suggest-tags request being handled and its response
  calls         \* the suggestTags calls in progress side by side, by call id

\* The state of the product API and of the browser, used by the
\* specifications of the product routes and of the pages below.
VARIABLES
  products,     \* the rows of the products table, by id
  handlers,     \* the product route handlers in progress and their responses
  page,         \* the state of the page component shown in the browser
  localStorage  \* window.localStorage

vars ==
  <<name, description, pc, requests, status, data, parsed, error, ret, http, calls,
    products, handlers, page, localStorage>>

\* The variables of the suggestion service, of the product API and of the browser.
aiVars == <<name, description, pc, requests, status, data, parsed, error, ret, http, calls>>
apiVars == <<products, handlers>>
uiVars == <<page, localStorage>>

\* No request is being handled; no calls run side by side.
NoRequest == [phase |-> "none"]
NoCalls == <<>>

\* An empty products table, no handler in progress, no page shown, and a
\* local storage without items.
NoProducts == <<>>
NoHandlers == <<>>
NoPage == [route |-> "none"]
NoItem == [present |-> FALSE, value |-> <<>>]
EmptyStorage == [auth_token |-> NoItem]

Pending == [state |-> "pending", tags |-> <<>>]
NotParsed == [applied |-> FALSE, ok |-> FALSE, tags |-> <<>>]

\* response.ok.
responseOk(st) == st >= 200 /\ st <= 299

\* catchBlock with the error rethrown instead of recovered.
catchBlockRethrow(n, d) == [state |-> "thrown", tags |-> <<>>]

\* catchBlock answering the generic tags whatever the inputs.
catchBlockGeneric(n, d) == [state |-> "returned", tags |-> genericTags]

\* The catch block of suggestTags (lines 56 to 60).
catchBlock(n, d) == [state |-> "returned", tags |-> generateFallbackTags(n, d)]

\* tryBody with a failed parse returned as an empty list instead of thrown.
tryBodySwallow(d) ==
  IF d.kind # "text"
    THEN [thrown |-> "type", parsed |-> NotParsed, tags |-> <<>>]
  ELSE LET r == parseTagsFromResponse(d.response)
       IN [thrown |-> "none",
           parsed |-> [applied |-> TRUE, ok |-> r.ok, tags |-> r.tags],
           tags |-> r.tags]

\* Lines 52 to 55 on the resolved body d: data.response.substring throws a
\* TypeError unless data is an object whose response is a string; then the
\* parser runs and its list is returned, or its Error is thrown. The result
\* names what was thrown ("none" if nothing), the parser's application and the
\* value returned.
tryBody(d) ==
  IF d.kind # "text"
    THEN [thrown |-> "type", parsed |-> NotParsed, tags |-> <<>>]
  ELSE LET r == parseTagsFromResponse(d.response)
       IN [thrown |-> IF r.ok THEN "none" ELSE "parse",
           parsed |-> [applied |-> TRUE, ok |-> r.ok, tags |-> r.tags],
           tags |-> r.tags]

Init ==
  /\ \E c \in Calls : name = c[1] /\ description = c[2]
  /\ pc = "start"
  /\ requests = 0
  /\ status = 0
  /\ data = NoData
  /\ parsed = NotParsed
  /\ error = "none"
  /\ ret = Pending
  /\ http = NoRequest
  /\ calls = NoCalls
  /\ products = NoProducts
  /\ handlers = NoHandlers
  /\ page = NoPage
  /\ localStorage = EmptyStorage

\* Lines 23 to 43: the prompt is built and fetch is called once.
SendRequest ==
  /\ pc = "start"
  /\ pc' = "awaitFetch"
  /\ requests' = requests + 1
  /\ UNCHANGED <<name, description, status, data, parsed, error, ret, http, calls, apiVars, uiVars>>

\* FetchRejects with one more attempt made before falling back.
FetchRejectsRetry(err) ==
  /\ pc = "awaitFetch"
  /\ IF requests < 2
       THEN /\ pc' = "start"
            /\ UNCHANGED <<error, ret>>
       ELSE /\ pc' = "done"
            /\ error' = err
            /\ ret' = catchBlock(name, description)
  /\ UNCHANGED <<name, description, requests, status, data, parsed, http, calls, apiVars, uiVars>>

\* await fetch(...) rejects (a transport error): the catch block runs.
FetchRejects(err) ==
  /\ pc = "awaitFetch"
  /\ pc' = "done"
  /\ error' = err
  /\ ret' = catchBlock(name, description)
  /\ UNCHANGED <<name, description, requests, status, data, parsed, http, calls, apiVars, uiVars>>

\* await fetch(...) resolves with status st: lines 45 to 49 throw unless
\* response.ok, and otherwise response.json() is awaited.
FetchResolves(st) ==
  /\ pc = "awaitFetch"
  /\ status' = st
  /\ IF responseOk(st)
       THEN /\ pc' = "awaitJson"
            /\ UNCHANGED <<error, ret>>
       ELSE /\ pc' = "done"
            /\ error' = "status"
            /\ ret' = catchBlock(name, description)
  /\ UNCHANGED <<name, description, requests, data, parsed, http, calls, apiVars, uiVars>>

\* await response.json() rejects (the body is not JSON): the catch block runs.
JsonRejects ==
  /\ pc = "awaitJson"
  /\ pc' = "done"
  /\ error' = "json"
  /\ ret' = catchBlock(name, description)
  /\ UNCHANGED <<name, description, requests, status, data, parsed, http, calls, apiVars, uiVars>>

\* JsonResolves with a short parsed list topped up with fallback tags.
JsonResolvesTopUp(d) ==
  /\ pc = "awaitJson"
  /\ pc' = "done"
  /\ data' = d
  /\ LET t == tryBody(d)
         fb == generateFallbackTags(name, description)
     IN /\ parsed' = t.parsed
        /\ error' = t.thrown
        /\ ret' = IF t.thrown = "none"
                    THEN [state |-> "returned", tags |-> slice0(t.tags \o fb, 5)]
                    ELSE catchBlock(name, description)
  /\ UNCHANGED <<name, description, requests, status, http, calls, apiVars, uiVars>>

\* await response.json() resolves to d: lines 52 to 55 run, and the catch
\* block if they throw.
JsonResolves(d) ==
  /\ pc = "awaitJson"
  /\ pc' = "done"
  /\ data' = d
  /\ LET t == tryBody(d)
     IN /\ parsed' = t.parsed
        /\ error' = t.thrown
        /\ ret' = IF t.thrown = "none"
                    THEN [state |-> "returned", tags |-> t.tags]
                    ELSE catchBlock(name, description)
  /\ UNCHANGED <<name, description, requests, status, http, calls, apiVars, uiVars>>

Next ==
  \/ SendRequest
  \/ \E err \in FetchErrors : FetchRejects(err)
  \/ \E st \in Statuses : FetchResolves(st)
  \/ JsonRejects
  \/ \E d \in JsonBodies : JsonResolves(d)

Spec == Init /\ [][Next]_vars

\* The call's own step is taken when it can be; the endpoint owes no answer,
\* and the code sets no timer, so no step that settles fetch is fair.
FairSpec == Spec /\ WF_vars(SendRequest)

(***************************************************************************)
(* Properties of suggestTags.                                              *)
(***************************************************************************)

Done == pc = "done"

\* The list the Fallback Extractor gives for the call's arguments.
Fallback == generateFallbackTags(name, description)

\* No two entries of a list are the same string.
Distinct(tags) == \A i, j \in 1..Len(tags) : i # j => tags[i] # tags[j]

\* C1: suggestTags never raises to its caller: whatever the Model Client does
\* (fetch rejects, a non-2xx status, a body that is not JSON or has no string
\* "response", a text the parser rejects), the call never settles by throwing,
\* and once it has settled it has returned a list.
C1_NeverRaises ==
  /\ ret.state # "thrown"
  /\ Done => ret.state = "returned"

\* A call that settled after data.response.substring threw a TypeError.
C1_Witness ==
  Done /\ error = "type" /\ data.kind = "noResponse" /\ ret.state = "returned"

\* C2: the list suggestTags returns has between 1 and 5 entries, for every
\* model response text, an empty bracketed array "[]" included.
C2_LengthBetween1And5 ==
  (Done /\ ret.state = "returned") => (Len(ret.tags) >= 1 /\ Len(ret.tags) <= 5)

\* C3: no two entries of the list suggestTags returns are identical strings,
\* whichever path produced the list.
C3_NoDuplicates ==
  (Done /\ ret.state = "returned") => Distinct(ret.tags)

\* C4: every entry of the list suggestTags returns is a non-empty string.
C4_NonEmptyEntries ==
  (Done /\ ret.state = "returned") => \A i \in 1..Len(ret.tags) : ret.tags[i] # <<>>

\* C5: if the Model Client call fails (fetch rejects, or the status is not
\* 2xx), suggestTags returns a non-empty list equal to the fallback tags of its
\* arguments, and the Response Parser is applied to nothing.
C5_ClientFailureGivesFallback ==
  (Done /\ (error \in FetchErrors \/ error = "status")) =>
    /\ ret = [state |-> "returned", tags |-> Fallback]
    /\ Len(ret.tags) >= 1
    /\ ~parsed.applied
    /\ data = NoData

\* A call that settled after the endpoint answered 500.
C5_Witness ==
  Done /\ error = "status" /\ status = 500 /\ name = chars("Bluetooth Speaker")

C7_ParsedListReturned ==
  (Done /\ data.kind = "text") =>
    LET r == parseTagsFromResponse(data.response)
    IN (r.ok /\ Len(r.tags) >= 1) =>
         (ret = [state |-> "returned", tags |-> r.tags] /\ error = "none")

\* A call that returned the three tags the permissive path found.
C7_Witness ==
  /\ Done
  /\ data.response = chars("line1: \"gadget\" \"tech\"\nline2: \"gadget\" \"mobile\"")
  /\ ret.tags = <<chars("gadget"), chars("tech"), chars("mobile")>>
  /\ name = chars("Bluetooth Speaker")

\* C8: every call to suggestTags eventually returns, also when the model
\* endpoint never responds.
C8_EveryCallReturns == <>Done

\* C9: within one suggestTags call at most one request is sent to the model
\* endpoint: a call that has settled, by whatever path, sent exactly one.
C9_AtMostOneRequest ==
  /\ requests <= 1
  /\ Done => requests = 1

\* A call that fell back after fetch rejected, with one request sent.
C9_Witness ==
  Done /\ error = "ECONNREFUSED" /\ requests = 1 /\ ret.tags = Fallback

\* Some line of the text holds a quote, one or more other characters, a quote.
hasQuoted(text) ==
  \E i \in 1..Len(responseLines(text)) : quotedMatches(responseLines(text)[i], 1) # <<>>

\* C10: for a text whose first bracketed substring does not decode as an
\* array of strings but which holds a non-empty quoted substring, the parser
\* returns the permissive strategy's list instead of failing.
C10_PermissiveAfterStructured ==
  (parsed.applied /\ jsonMatch(data.response) # <<>>) =>
    LET j == JSONparse(jsonMatch(data.response))
        p == permissiveParse(data.response)
    IN (~(j.ok /\ everyString(j.value)) /\ hasQuoted(data.response) /\ p.ok) =>
         (parsed.ok /\ parsed.tags = p.tags)

(***************************************************************************)
(* Properties of parseTagsFromResponse, on the text a call applied it to.  *)
(***************************************************************************)

\* C11: when the first non-greedy single-line "[...]" substring of the text
\* decodes as a JSON array whose elements are all strings, the parser returns
\* exactly the first min(5, n) elements of that array in their order, whatever
\* prose or later arrays surround it; the text
\* Here are tags: ["audio","wireless","bluetooth","portable","smart"]
\* gives those five tags, and of two arrays only the first is used.
C11_StructuredFirstFive ==
  parsed.applied =>
    /\ jsonMatch(data.response) # <<>> =>
         LET j == JSONparse(jsonMatch(data.response))
         IN (j.ok /\ everyString(j.value)) =>
              /\ parsed.ok
              /\ Len(parsed.tags) = (IF Len(j.value) < 5 THEN Len(j.value) ELSE 5)
              /\ \A i \in 1..Len(parsed.tags) : parsed.tags[i] = j.value[i].val
    /\ data.response =
         chars("Here are tags: [\"audio\",\"wireless\",\"bluetooth\",\"portable\",\"smart\"]") =>
         parsed.tags = <<chars("audio"), chars("wireless"), chars("bluetooth"),
                         chars("portable"), chars("smart")>>
    /\ data.response = chars("[\"x\"] and [\"y\"]") => parsed.tags = <<chars("x")>>
    /\ data.response = chars("[\" B\"]") => parsed.tags = <<chars(" B")>>

\* The parser applied to an array of six strings returned its first five.
C11_Witness ==
  /\ parsed.applied
  /\ data.response = chars("[\"a\",\"b\",\"c\",\"d\",\"e\",\"f\"]")
  /\ parsed.tags = <<chars("a"), chars("b"), chars("c"), chars("d"), chars("e")>>

\* The quoted substrings of every line of a text, top to bottom and left to
\* right, each with its quotes removed, trimmed and lowercased.
RECURSIVE cleanedQuotes(_)
cleanedQuotes(lines) ==
  IF lines = <<>> THEN <<>>
  ELSE LET ms == quotedMatches(Head(lines), 1)
       IN [i \in 1..Len(ms) |-> cleanTag(ms[i])] \o cleanedQuotes(Tail(lines))

\* The entries of cand that are non-empty and occur at no earlier position,
\* in their order.
firstOccurrences(cand) ==
  LET keep(i) == cand[i] # <<>> /\ \A k \in 1..(i - 1) : cand[k] # cand[i]
      kept == {i \in 1..Len(cand) : keep(i)}
      rank(i) == Cardinality({k \in kept : k <= i})
  IN [r \in 1..Cardinality(kept) |-> cand[CHOOSE i \in kept : rank(i) = r]]

\* C12: for a text with no bracketed array, the parser returns the first 5
\* entries of the list built by scanning lines top to bottom and quoted
\* substrings left to right, each lowercased and trimmed and kept only if
\* non-empty and not already in the list (and fails if that list is empty); the
\* lines "gadget" "tech" and "gadget" "mobile" give gadget, tech, mobile.
C12_PermissiveFirstOccurrences ==
  (parsed.applied /\ jsonMatch(data.response) = <<>>) =>
    LET list == firstOccurrences(cleanedQuotes(splitOn(data.response, {NL})))
    IN /\ parsed.ok <=> list # <<>>
       /\ parsed.ok =>
            /\ Len(parsed.tags) = (IF Len(list) < 5 THEN Len(list) ELSE 5)
            /\ \A i \in 1..Len(parsed.tags) : parsed.tags[i] = list[i]
       /\ data.response =
            chars("line1: \"gadget\" \"tech\"\nline2: \"gadget\" \"mobile\"") =>
            parsed.tags = <<chars("gadget"), chars("tech"), chars("mobile")>>

\* The parser applied to two lines of quoted words with one word repeated.
C12_Witness ==
  /\ parsed.applied
  /\ data.response = chars("line1: \"gadget\" \"tech\"\nline2: \"gadget\" \"mobile\"")
  /\ parsed.ok
  /\ Len(parsed.tags) = 3

\* C13: the parser fails exactly when no tag can be extracted: on a text with
\* neither a bracketed substring decoding to a non-empty array of strings nor
\* a non-empty quoted substring it signals failure, so a successful parse
\* never yields an empty list.
C13_FailsWhenNoTag ==
  parsed.applied =>
    LET m == jsonMatch(data.response)
        j == JSONparse(m)
        nonEmptyArray == m # <<>> /\ j.ok /\ everyString(j.value) /\ Len(j.value) >= 1
    IN /\ (~nonEmptyArray /\ ~hasQuoted(data.response)) => ~parsed.ok
       /\ parsed.ok => Len(parsed.tags) >= 1

(***************************************************************************)
(* generateFallbackTags on its own, over names and descriptions that need  *)
(* not pass validation (the function is private and takes any strings).    *)
(***************************************************************************)

\* The longest name built from NameTokens.
MaxNameToks == 3

\* The pieces names are built from: words (one of them a keyword, one a stop
\* word, one too short to qualify) and the separators of the split.
NameTokens ==
  { chars("Smart"), chars("the"), chars("ab"), chars("Xyzzyx"), chars("gadget"),
    <<"-">>, <<"_">>, <<SPACE>> }

\* Every concatenation of exactly n name tokens.
RECURSIVE TokenNames(_)
TokenNames(n) ==
  IF n = 0 THEN {<<>>}
  ELSE {t \o k : t \in TokenNames(n - 1), k \in NameTokens}

\* Names of the specification's examples and names with more words than
\* MaxNameToks tokens give.
SampleNames ==
  { chars("Xyzzyx"), chars("Bluetooth Speaker"), chars("blue"), chars("Alpha Beta Gamma Delta"),
    chars("Smart Home-Kitchen_Tool the Gadget"), chars("Item with Product") }

\* The descriptions paired with every name built from tokens: none, and one
\* with keywords in it.
TokenDescriptions == { <<>>, chars("A wireless portable speaker") }

FallbackDescriptions ==
  TokenDescriptions \cup
  { chars("Qwerty"), chars("tooth speaker"),
    chars("Electronics gadget device, tech and digital wireless for the home") }

\* The (name, description) pairs generateFallbackTags is applied to.
FallbackInputs ==
  ((UNION {TokenNames(n) : n \in 0..MaxNameToks}) \X TokenDescriptions)
  \cup (SampleNames \X FallbackDescriptions)

FallbackInit ==
  /\ \E c \in FallbackInputs : name = c[1] /\ description = c[2]
  /\ pc = "fallback"
  /\ requests = 0
  /\ status = 0
  /\ data = NoData
  /\ parsed = NotParsed
  /\ error = "none"
  /\ ret = Pending
  /\ http = NoRequest
  /\ calls = NoCalls
  /\ products = NoProducts
  /\ handlers = NoHandlers
  /\ page = NoPage
  /\ localStorage = EmptyStorage

\* this.generateFallbackTags(name, description) is called and returns.
FallbackCall ==
  /\ pc = "fallback"
  /\ pc' = "fallbackDone"
  /\ ret' = [state |-> "returned", tags |-> generateFallbackTags(name, description)]
  /\ UNCHANGED <<name, description, requests, status, data, parsed, error, http, calls, apiVars, uiVars>>

FallbackNext == FallbackCall

FallbackSpec == FallbackInit /\ [][FallbackNext]_vars

FallbackDone == pc = "fallbackDone"

\* The keywords that occur in the lowercased text, in vocabulary order.
matchedKeywords == SelectSeq(keywords, LAMBDA k : strIncludes(fallbackText(name, description), k))

\* The lowercased pieces of name between runs of whitespace, "-" and "_" that
\* are longer than 2 and no stop word.
qualifyingTokens ==
  LET seps == WhiteSpace \cup {"-", "_"}
      starts == { i \in 1..Len(name) :
                    name[i] \notin seps /\ (i = 1 \/ name[i - 1] \in seps) }
      end(i) == Min({ j \in i..Len(name) : j = Len(name) \/ name[j + 1] \in seps })
  IN { w \in { toLowerCase(SubSeq(name, i, end(i))) : i \in starts } :
         Len(w) > 2 /\ w \notin stopWords }

\* C14: generateFallbackTags is total and returns a valid TagList: for every
\* name and description, empty and separator-only names included, it returns
\* a list of 1 to 5 pairwise distinct, non-empty strings.
C14_FallbackValidTagList ==
  FallbackDone =>
    /\ ret.state = "returned"
    /\ Len(ret.tags) >= 1 /\ Len(ret.tags) <= 5
    /\ Distinct(ret.tags)
    /\ \A i \in 1..Len(ret.tags) : ret.tags[i] # <<>>

\* The fallback returned for a name made of separators alone.
C14_Witness ==
  FallbackDone /\ name = <<"-", "_", SPACE>> /\ description = <<>> /\ ret.tags = genericTags

\* C16: the generic tags product, item, merchandise are seeded, as the first
\* three entries in that order, if and only if no keyword occurs in the text;
\* at most two qualifying name tokens follow them; Xyzzyx with Qwerty gives
\* product, item, merchandise, xyzzyx.
C16_GenericBaseline ==
  FallbackDone =>
    LET matched == matchedKeywords
        tokens == qualifyingTokens
    IN /\ (matched = <<>>) <=>
            (Len(ret.tags) >= 3 /\ SubSeq(ret.tags, 1, 3) = genericTags)
       /\ matched = <<>> =>
            /\ Len(ret.tags) <= 5
            /\ \A i \in 4..Len(ret.tags) : ret.tags[i] \in tokens
       /\ (name = chars("Xyzzyx") /\ description = chars("Qwerty")) =>
            ret.tags = <<chars("product"), chars("item"), chars("merchandise"), chars("xyzzyx")>>

\* The fallback returned for the example without keywords.
C16_Witness ==
  /\ FallbackDone
  /\ name = chars("Xyzzyx") /\ description = chars("Qwerty")
  /\ Len(ret.tags) = 4

\* C17: the keywords that occur in the text are at the front of the result in
\* vocabulary order, before any name token and with no generic tag seeded;
\* when more than 5 match, the result is the first 5 of them; Bluetooth
\* Speaker with A wireless portable speaker gives at most 5 tags holding
\* wireless, bluetooth and portable.
C17_KeywordsFirst ==
  FallbackDone =>
    LET matched == matchedKeywords
        tokens == qualifyingTokens
        n == IF Len(matched) < 5 THEN Len(matched) ELSE 5
    IN /\ matched # <<>> =>
            /\ Len(ret.tags) >= n /\ Len(ret.tags) <= 5
            /\ \A i \in 1..n : ret.tags[i] = matched[i]
            /\ \A i \in (n + 1)..Len(ret.tags) : ret.tags[i] \in tokens
       /\ (name = chars("Bluetooth Speaker") /\ description = chars("A wireless portable speaker")) =>
            /\ Len(ret.tags) <= 5
            /\ \A k \in {chars("wireless"), chars("bluetooth"), chars("portable")} :
                 includes(ret.tags, k)

\* The fallback returned when seven keywords occur in the text.
C17_Witness ==
  /\ FallbackDone
  /\ Len(matchedKeywords) > 5
  /\ ret.tags = SubSeq(matchedKeywords, 1, 5)
  /\ name = chars("Xyzzyx")

\* The qualifying tokens of name in the order they occur in it, repeats kept.
qualifyingTokenSeq ==
  LET seps == WhiteSpace \cup {"-", "_"}
      starts == { i \in 1..Len(name) :
                    name[i] \notin seps /\ (i = 1 \/ name[i - 1] \in seps) }
      end(i) == Min({ j \in i..Len(name) : j = Len(name) \/ name[j + 1] \in seps })
      nth(k) == CHOOSE i \in starts : Cardinality({j \in starts : j < i}) = k - 1
      pieces == [k \in 1..Cardinality(starts) |-> toLowerCase(SubSeq(name, nth(k), end(nth(k))))]
  IN SelectSeq(pieces, LAMBDA w : Len(w) > 2 /\ w \notin stopWords)

\* C24: the entries after the keyword or generic prefix of a fallback result
\* are lowercased tokens of name alone: the pieces of name between runs of
\* whitespace, "-" and "_" that are longer than 2 and none of the, and, for,
\* with, in name order, each once and only if the prefix does not hold it,
\* as many as fit in 5 entries.
C24_NameTokensFollow ==
  FallbackDone =>
    LET matched == matchedKeywords
        prefix == slice0(IF matched = <<>> THEN genericTags ELSE matched, 5)
        fresh == firstOccurrences(SelectSeq(qualifyingTokenSeq, LAMBDA w : ~includes(prefix, w)))
    IN /\ Len(ret.tags) >= Len(prefix)
       /\ SubSeq(ret.tags, Len(prefix) + 1, Len(ret.tags)) = slice0(fresh, 5 - Len(prefix))

\* The fallback of the keyword example: the name token bluetooth is already
\* in the prefix and speaker, a word of the name, follows the prefix.
C24_Witness ==
  /\ FallbackDone
  /\ name = chars("Bluetooth Speaker")
  /\ description = chars("A wireless portable speaker")
  /\ ret.tags = <<chars("wireless"), chars("bluetooth"), chars("portable"), chars("speaker")>>

\* The keywords among the first five that occur in text, as a set.
selectedFrom(text) ==
  LET present == SelectSeq(keywords, LAMBDA k : strIncludes(text, k))
  IN {present[j] : j \in 1..(IF Len(present) < 5 THEN Len(present) ELSE 5)}

\* The keywords in the result.
keywordsReturned == {keywords[i] : i \in {k \in 1..Len(keywords) : includes(ret.tags, keywords[k])}}

\* C25 as stated: the haystack is the lowercased concatenation of name and
\* description, and a keyword is selected exactly when it is a substring of
\* it (one of the first five such), also when it spans the end of name and
\* the start of description.
C25_KeywordsOfConcatenation ==
  FallbackDone => keywordsReturned = selectedFrom(toLowerCase(name \o description))

\* C25 as amended: the haystack is the lowercased name, one space and the
\* description, and a keyword is selected exactly when it is one of the first
\* five keywords that are substrings of it; a keyword is matched whatever the
\* case of the input, and a keyword that spans the end of name and the start
\* of description is not matched.
C25_KeywordsOfSpacedText ==
  FallbackDone =>
    /\ keywordsReturned = selectedFrom(toLowerCase(name \o <<SPACE>> \o description))
    /\ (name = chars("blue") /\ description = chars("tooth speaker")) =>
         ~includes(ret.tags, chars("bluetooth"))

\* The fallback of name blue with description tooth speaker: no keyword is
\* selected and the generic tags are seeded.
C25_Witness ==
  /\ FallbackDone
  /\ name = chars("blue")
  /\ description = chars("tooth speaker")
  /\ ret.tags = genericTags \o <<chars("blue")>>

(***************************************************************************)
(* The route POST /suggest-tags: authMiddleware, validation of the body    *)
(* against TagSuggestionDto, the suggestTags call and the response.        *)
(***************************************************************************)

\* process.env.SECRET_TOKEN || "SECRET_TOKEN".
SECRET_TOKEN == chars("SECRET_TOKEN")

\* req.headers.authorization: absent (<<>> with present FALSE) or a string.
NoHeader == [present |-> FALSE, value |-> <<>>]
Header(cs) == [present |-> TRUE, value |-> cs]

AuthHeaders ==
  { NoHeader, Header(chars("Basic SECRET_TOKEN")), Header(chars("Bearer wrong")),
    Header(chars("bearer SECRET_TOKEN")), Header(chars("Bearer SECRET_TOKEN")) }

\* String.prototype.startsWith.
startsWith(s, prefix) == Len(s) >= Len(prefix) /\ SubSeq(s, 1, Len(prefix)) = prefix

\* authMiddleware without the comparison of the token with SECRET_TOKEN.
authMiddlewareAnyToken(authHeader) ==
  IF ~authHeader.present \/ authHeader.value = <<>> THEN 401
  ELSE IF ~startsWith(authHeader.value, chars("Bearer ")) THEN 401
  ELSE 0

\* authMiddleware: the status it answers with, or 0 when it calls next().
authMiddleware(authHeader) ==
  IF ~authHeader.present \/ authHeader.value = <<>> THEN 401
  ELSE IF ~startsWith(authHeader.value, chars("Bearer ")) THEN 401
  ELSE IF SubSeq(authHeader.value, 8, Len(authHeader.value)) # SECRET_TOKEN THEN 401
  ELSE 0

\* A member of the JSON request body: absent, a number, or a string.
jsUndefined == [t |-> "undefined", v |-> <<>>]
jsNumber == [t |-> "number", v |-> <<>>]
jsString(cs) == [t |-> "string", v |-> cs]

\* @MaxLength(255) of name and @MaxLength(1000) of description.
nameMaxLength == 255
descriptionMaxLength == 1000

\* A string of n letters.
letters(n) == [i \in 1..n |-> "a"]

\* The values of name and of description in the request bodies.
NameValues ==
  { jsUndefined, jsNumber, jsString(<<>>), jsString(<<SPACE>>),
    jsString(chars("Xyzzyx")), jsString(chars("Bluetooth Speaker")),
    jsString(letters(nameMaxLength)), jsString(letters(nameMaxLength + 1)) }

DescriptionValues ==
  { jsUndefined, jsNumber, jsString(<<>>), jsString(<<SPACE, SPACE>>),
    jsString(chars("Qwerty")), jsString(chars("A wireless portable speaker")),
    jsString(letters(descriptionMaxLength + 1)) }

RequestBodies == [name : NameValues, description : DescriptionValues]

\* The decorators of one DTO property: @IsString() (typeof value is string),
\* @IsNotEmpty() (value is not "", null or undefined) and @MaxLength(max)
\* (a string of at most max characters). TRUE when one of them fails.
propertyInvalid(value, max) ==
  \/ value.t # "string"
  \/ value.t = "undefined" \/ (value.t = "string" /\ value.v = <<>>)
  \/ ~(value.t = "string" /\ Len(value.v) <= max)

\* validate(dto): the properties with errors.
validate(body) ==
  {p \in {"name", "description"} :
     propertyInvalid(body[p], IF p = "name" THEN nameMaxLength ELSE descriptionMaxLength)}

\* The message of the Error suggestTags would throw if its catch block let
\* the caught error escape.
errorMessage(kind) ==
  CASE kind \in FetchErrors -> chars("fetch failed")
    [] kind = "status" -> chars("Ollama API error: 500 Internal Server Error")
    [] kind = "json" -> chars("Unexpected token < in JSON at position 0")
    [] kind = "type" -> chars("Cannot read properties of undefined (reading 'substring')")
    [] OTHER -> chars("Failed to parse tag suggestions from AI response")

\* The global error handler of index.ts, reached through next(error) with an
\* Error that is no validation error and has no status: 503 for a message that
\* mentions "connect" or "database", 500 otherwise.
globalErrorHandler(message) ==
  IF strIncludes(message, chars("connect")) \/ strIncludes(message, chars("database"))
    THEN 503
  ELSE 500

\* The catch block of the route (lines 236 to 260): the status answered for a
\* caught Error with the given message.
routeCatch(message) ==
  IF strIncludes(message, chars("network")) \/ strIncludes(message, chars("fetch")) THEN 503
  ELSE IF strIncludes(message, chars("timeout")) THEN 408
  ELSE globalErrorHandler(message)

\* The bodies response.json() resolves to in the route's specification.
RouteBodies ==
  {[kind |-> "null", response |-> <<>>],
   [kind |-> "noResponse", response |-> <<>>],
   [kind |-> "numberResponse", response |-> <<>>]}
  \cup {[kind |-> "text", response |-> t] : t \in TokenTexts(0) \cup TokenTexts(2) \cup SampleTexts}

RouteInit ==
  /\ name = <<>>
  /\ description = <<>>
  /\ pc = "idle"
  /\ requests = 0
  /\ status = 0
  /\ data = NoData
  /\ parsed = NotParsed
  /\ error = "none"
  /\ ret = Pending
  /\ \E a \in AuthHeaders, b \in RequestBodies :
       http = [phase |-> "received", auth |-> a, body |-> b, status |-> 0,
               resBody |-> [error |-> "none"]]
  /\ calls = NoCalls
  /\ products = NoProducts
  /\ handlers = NoHandlers
  /\ page = NoPage
  /\ localStorage = EmptyStorage

\* authMiddleware runs: it answers 401, or calls next() and the handler runs
\* up to await validate(dto).
Authenticate ==
  /\ http.phase = "received"
  /\ http' = IF authMiddleware(http.auth) # 0
               THEN [http EXCEPT !.phase = "responded", !.status = authMiddleware(http.auth),
                                 !.resBody = [error |-> "Unauthorized"]]
               ELSE [http EXCEPT !.phase = "validating"]
  /\ UNCHANGED <<name, description, pc, requests, status, data, parsed, error, ret, calls, apiVars, uiVars>>

\* await validate(dto) resolves: with errors the handler answers 400; without,
\* it constructs an AiService and calls suggestTags(dto.name, dto.description),
\* which runs up to its await fetch(...).
Validate ==
  /\ http.phase = "validating"
  /\ IF validate(http.body) # {}
       THEN /\ http' = [http EXCEPT !.phase = "responded", !.status = 400,
                                    !.resBody = [error |-> "Validation failed"]]
            /\ UNCHANGED <<name, description, pc, requests>>
       ELSE /\ http' = [http EXCEPT !.phase = "calling"]
            /\ name' = http.body.name.v
            /\ description' = http.body.description.v
            /\ pc' = "awaitFetch"
            /\ requests' = requests + 1
  /\ UNCHANGED <<status, data, parsed, error, ret, calls, apiVars, uiVars>>

\* await aiService.suggestTags(...) settles: res.json({ suggestedTags }) answers
\* 200, or the route's catch block answers for the Error thrown.
Respond ==
  /\ http.phase = "calling"
  /\ pc = "done"
  /\ http' = IF ret.state = "returned"
               THEN [http EXCEPT !.phase = "responded", !.status = 200,
                                 !.resBody = [suggestedTags |-> ret.tags]]
               ELSE [http EXCEPT !.phase = "responded",
                                 !.status = routeCatch(errorMessage(error)),
                                 !.resBody = [error |-> "Error"]]
  /\ UNCHANGED <<name, description, pc, requests, status, data, parsed, error, ret, calls, apiVars, uiVars>>

RouteNext ==
  \/ Authenticate
  \/ Validate
  \/ \E err \in FetchErrors : FetchRejects(err)
  \/ \E st \in Statuses : FetchResolves(st)
  \/ JsonRejects
  \/ \E d \in RouteBodies : JsonResolves(d)
  \/ Respond

RouteSpec == RouteInit /\ [][RouteNext]_vars

Responded == http.phase = "responded"

\* The request passed authentication and validation.
Accepted == authMiddleware(http.auth) = 0 /\ validate(http.body) = {}

\* C18: a POST /suggest-tags request that passes authentication and
\* validation is answered with status 200 and a body {suggestedTags: [...]}
\* whatever the Model Client does; the route never sees an Error from
\* suggestTags, so 503 and 408 are never answered.
C18_AnsweredOk ==
  /\ http.status \notin {503, 408, 500}
  /\ (Responded /\ Accepted) =>
       (http.status = 200 /\ http.resBody = [suggestedTags |-> ret.tags])
  /\ (Accepted /\ Done) => (ret.state = "returned" /\ http.phase \in {"calling", "responded"})

\* A request answered 200 with the fallback tags after the connection to the
\* model endpoint was refused.
C18_Witness ==
  /\ Responded
  /\ error = "ECONNREFUSED"
  /\ description = chars("Qwerty")
  /\ http.status = 200
  /\ http.resBody = [suggestedTags |->
                       generateFallbackTags(chars("Bluetooth Speaker"), chars("Qwerty"))]

\* A member of the body the specification calls invalid: missing, no string,
\* empty, empty after trimming, or longer than max.
specInvalid(value, max) ==
  \/ value.t # "string"
  \/ trim(value.v) = <<>>
  \/ Len(value.v) > max

\* C20: validation happens before the core is invoked: a body whose name or
\* description is missing, not a string, empty, empty after trimming, or
\* longer than 255 / 1000 characters is answered 400, suggestTags is not
\* called and no request is sent to the model endpoint.
C20_InvalidRejected ==
  (authMiddleware(http.auth) = 0
     /\ (\/ specInvalid(http.body.name, nameMaxLength)
         \/ specInvalid(http.body.description, descriptionMaxLength))) =>
    /\ pc = "idle"
    /\ requests = 0
    /\ Responded => http.status = 400

(***************************************************************************)
(* Concurrent suggestTags calls. Every invocation of the async function    *)
(* has its own parameters and locals; the fields of AiService (ollamaUrl,  *)
(* model) are readonly. calls[c] holds the invocation record of call c.    *)
(***************************************************************************)

MaxCalls == 2

CallIds == 1..MaxCalls

\* The (name, description) pairs of the concurrent calls.
ConcCalls ==
  { <<chars("Bluetooth Speaker"), chars("A wireless portable speaker")>>,
    <<chars("Xyzzyx"), chars("Qwerty")>> }

\* The bodies response.json() resolves to for the concurrent calls.
ConcBodies ==
  { [kind |-> "null", response |-> <<>>],
    [kind |-> "text", response |-> chars("[\"audio\", \"wireless\"]")],
    [kind |-> "text", response |-> chars("no tags")] }

\* The invocation record of a call at its start.
NewCall(n, d) ==
  [name |-> n, description |-> d, pc |-> "start", requests |-> 0, status |-> 0,
   data |-> NoData, error |-> "none", ret |-> Pending]

\* The catch block as if name and description were kept in one place shared
\* by the calls, holding the first call's values.
CCatchShared(c) == catchBlock(calls[1].name, calls[1].description)

\* The catch block (lines 56 to 60) of call c, on its own parameters.
CCatch(c) == catchBlock(calls[c].name, calls[c].description)

ConcInit ==
  /\ name = <<>>
  /\ description = <<>>
  /\ pc = "idle"
  /\ requests = 0
  /\ status = 0
  /\ data = NoData
  /\ parsed = NotParsed
  /\ error = "none"
  /\ ret = Pending
  /\ http = NoRequest
  /\ calls \in [CallIds -> {NewCall(a[1], a[2]) : a \in ConcCalls}]
  /\ products = NoProducts
  /\ handlers = NoHandlers
  /\ page = NoPage
  /\ localStorage = EmptyStorage

\* Call c builds its prompt and calls fetch (lines 23 to 43).
CSend(c) ==
  /\ calls[c].pc = "start"
  /\ calls' = [calls EXCEPT ![c].pc = "awaitFetch", ![c].requests = @ + 1]
  /\ UNCHANGED <<name, description, pc, requests, status, data, parsed, error, ret, http, apiVars, uiVars>>

\* The fetch of call c rejects.
CFetchRejects(c, err) ==
  /\ calls[c].pc = "awaitFetch"
  /\ calls' = [calls EXCEPT ![c].pc = "done", ![c].error = err, ![c].ret = CCatch(c)]
  /\ UNCHANGED <<name, description, pc, requests, status, data, parsed, error, ret, http, apiVars, uiVars>>

\* The fetch of call c resolves with status st (lines 45 to 51).
CFetchResolves(c, st) ==
  /\ calls[c].pc = "awaitFetch"
  /\ calls' = IF responseOk(st)
                THEN [calls EXCEPT ![c].status = st, ![c].pc = "awaitJson"]
                ELSE [calls EXCEPT ![c].status = st, ![c].pc = "done",
                                   ![c].error = "status", ![c].ret = CCatch(c)]
  /\ UNCHANGED <<name, description, pc, requests, status, data, parsed, error, ret, http, apiVars, uiVars>>

\* response.json() of call c rejects.
CJsonRejects(c) ==
  /\ calls[c].pc = "awaitJson"
  /\ calls' = [calls EXCEPT ![c].pc = "done", ![c].error = "json", ![c].ret = CCatch(c)]
  /\ UNCHANGED <<name, description, pc, requests, status, data, parsed, error, ret, http, apiVars, uiVars>>

\* response.json() of call c resolves to d (lines 52 to 55, then the catch
\* block if they throw).
CJsonResolves(c, d) ==
  /\ calls[c].pc = "awaitJson"
  /\ LET t == tryBody(d)
     IN calls' = [calls EXCEPT ![c].pc = "done", ![c].data = d, ![c].error = t.thrown,
                               ![c].ret = IF t.thrown = "none"
                                            THEN [state |-> "returned", tags |-> t.tags]
                                            ELSE CCatch(c)]
  /\ UNCHANGED <<name, description, pc, requests, status, data, parsed, error, ret, http, apiVars, uiVars>>

ConcNext ==
  \E c \in CallIds :
    \/ CSend(c)
    \/ \E err \in FetchErrors : CFetchRejects(c, err)
    \/ \E st \in Statuses : CFetchResolves(c, st)
    \/ CJsonRejects(c)
    \/ \E d \in ConcBodies : CJsonResolves(c, d)

ConcSpec == ConcInit /\ [][ConcNext]_vars

\* What a call with invocation record k returns when it runs alone: the
\* parser's list when nothing was thrown, the fallback of its own name and
\* description otherwise.
soloResult(k) ==
  IF k.error = "none"
    THEN [state |-> "returned", tags |-> parseTagsFromResponse(k.data.response).tags]
  ELSE [state |-> "returned", tags |-> generateFallbackTags(k.name, k.description)]

\* C19: concurrent suggestTags calls are independent: in every interleaving
\* each finished call has sent one request of its own and returned what it
\* would return alone on its own name, description and model response, an
\* unfinished call has returned nothing, and a step of one call leaves the
\* records of all other calls untouched.
C19_CallsIndependent ==
  /\ [](\A c \in CallIds :
          IF calls[c].pc = "done"
            THEN calls[c].ret = soloResult(calls[c]) /\ calls[c].requests = 1
          ELSE calls[c].ret = Pending)
  /\ [][\A c \in CallIds :
          calls'[c] # calls[c] => \A o \in CallIds \ {c} : calls'[o] = calls[o]]_vars

\* The second call has fallen back on its own arguments while the first call,
\* made with other arguments, is still waiting for its response body.
C19_Witness ==
  /\ calls[1].pc = "awaitJson"
  /\ calls[2].pc = "done"
  /\ calls[2].error = "ECONNREFUSED"
  /\ calls[1].name # calls[2].name
  /\ calls[2].ret.tags = generateFallbackTags(calls[2].name, calls[2].description)
  /\ calls[2].ret.tags # generateFallbackTags(calls[1].name, calls[1].description)

(***************************************************************************)
(* The product routes of product.routes.ts over the products table. The    *)
(* repository calls are those of TypeORM on the entity Product, whose      *)
(* deletedAt is a @DeleteDateColumn: find and findOne leave out rows with  *)
(* deletedAt set unless withDeleted is asked for, softRemove sets          *)
(* deletedAt and restore clears it. The id column is a Postgres uuid.      *)
(***************************************************************************)

\* The most products the table holds.
MaxProducts == 2

\* The ids the database generates, in the order it hands them out.
ProductIds == 1..MaxProducts

\* The :id of a request path: a well-formed uuid (n names it) or another text.
Uuid(n) == [uuid |-> TRUE, n |-> n]
NotUuid == [uuid |-> FALSE, n |-> 0]

\* The :id values of the requests: the ids of the table, a well-formed uuid
\* the database never hands out, and a text that is no uuid.
IdParams == {Uuid(n) : n \in 1..(MaxProducts + 1)} \cup {NotUuid}

\* deletedAt of a row that is not deleted, and of one that is.
NULL == "NULL"
DeletedDate == "Date"

\* A number of the JSON body, in thousandths (19990 is 19.99), and an array.
jsNum(thousandths) == [t |-> "number", v |-> thousandths]
jsArray(elements) == [t |-> "array", v |-> elements]

\* The values of the body members of POST /products and PUT /products/:id.
ProductNames ==
  { jsUndefined, jsString(<<>>), jsString(chars("Lamp")), jsString(chars("Shade")),
    jsString(letters(nameMaxLength + 1)) }
ProductDescriptions ==
  { jsUndefined, jsNumber, jsString(<<>>), jsString(chars("Desk lamp")),
    jsString(letters(descriptionMaxLength + 1)) }
ProductTags ==
  { jsUndefined, jsArray(<<>>), jsArray(<<jsString(chars("home"))>>),
    jsArray(<<jsString(chars("home")), jsNumber>>), jsString(chars("home")) }
ProductPrices == { jsUndefined, jsNum(19990), jsNum(0), jsNum(0 - 5000), jsNum(1999) }

\* A body all of whose members pass CreateProductDto, and a body without members.
ValidBody ==
  [name |-> jsString(chars("Lamp")), description |-> jsString(chars("Desk lamp")),
   tags |-> jsArray(<<jsString(chars("home"))>>), price |-> jsNum(19990)]
EmptyBody ==
  [name |-> jsUndefined, description |-> jsUndefined, tags |-> jsUndefined,
   price |-> jsUndefined]

\* The bodies that differ from base in at most one member.
OneMemberChanged(base) ==
  {[base EXCEPT !.name = v] : v \in ProductNames}
  \cup {[base EXCEPT !.description = v] : v \in ProductDescriptions}
  \cup {[base EXCEPT !.tags = v] : v \in ProductTags}
  \cup {[base EXCEPT !.price = v] : v \in ProductPrices}

CreateBodies == OneMemberChanged(ValidBody)
UpdateBodies == OneMemberChanged(EmptyBody)

\* @IsArray() @ArrayNotEmpty() @IsString({ each: true }): TRUE when one fails.
tagsInvalid(value) ==
  \/ value.t # "array"
  \/ value.v = <<>>
  \/ \E i \in 1..Len(value.v) : value.v[i].t # "string"

\* @IsNumber({ maxDecimalPlaces: 2 }) @IsPositive() on the value @Type(() =>
\* Number) leaves (a number stays the number it is; undefined stays
\* undefined): TRUE when one fails.
priceInvalid(value) ==
  \/ value.t # "number"
  \/ value.v % 10 # 0
  \/ value.v <= 0

\* The properties of body that one of the decorators of dto rejects. Under
\* @IsOptional() (UpdateProductDto) an undefined property is not validated.
validateProductNoPrice(dto, body) ==
  {p \in {"name", "description", "tags"} :
     /\ ~(dto = "UpdateProductDto" /\ body[p].t = "undefined")
     /\ CASE p = "name" -> propertyInvalid(body[p], nameMaxLength)
          [] p = "description" -> propertyInvalid(body[p], descriptionMaxLength)
          [] OTHER -> tagsInvalid(body[p])}

\* validate(dto) for CreateProductDto and UpdateProductDto: the properties
\* with errors.
validateProduct(dto, body) ==
  {p \in {"name", "description", "tags", "price"} :
     /\ ~(dto = "UpdateProductDto" /\ body[p].t = "undefined")
     /\ CASE p = "name" -> propertyInvalid(body[p], nameMaxLength)
          [] p = "description" -> propertyInvalid(body[p], descriptionMaxLength)
          [] p = "tags" -> tagsInvalid(body[p])
          [] OTHER -> priceInvalid(body[p])}

\* The entity with the given id built from a row of the table.
entityOf(id, row) ==
  [id |-> id, name |-> row.name, description |-> row.description, tags |-> row.tags,
   price |-> row.price, deletedAt |-> row.deletedAt]

\* What findOne resolves to when no row matches.
NoEntity == [id |-> 0]

\* productRepository.create(dto): a new entity, its id (0) not generated yet.
create(body) ==
  [id |-> 0, name |-> body.name.v, description |-> body.description.v,
   tags |-> [i \in 1..Len(body.tags.v) |-> body.tags.v[i].v],
   price |-> body.price.v, deletedAt |-> NULL]

\* Object.assign(product, dto): the properties of dto that are not undefined
\* replace those of product.
assign(product, body) ==
  [product EXCEPT
     !.name = IF body.name.t = "undefined" THEN @ ELSE body.name.v,
     !.description = IF body.description.t = "undefined" THEN @ ELSE body.description.v,
     !.tags = IF body.tags.t = "undefined" THEN @
              ELSE [i \in 1..Len(body.tags.v) |-> body.tags.v[i].v],
     !.price = IF body.price.t = "undefined" THEN @ ELSE body.price.v]

\* productRepository.find(): the entities whose deletedAt is not set.
find(table) ==
  {entityOf(id, table[id]) : id \in {i \in DOMAIN table : table[i].deletedAt = NULL}}

\* createQueryBuilder("product").where("product.deletedAt IS NOT NULL")
\* .withDeleted().getMany().
findDeleted(table) ==
  {entityOf(id, table[id]) : id \in {i \in DOMAIN table : table[i].deletedAt # NULL}}

\* productRepository.findOne({ where: { id }, withDeleted }) for a well-formed
\* uuid: the entity of the row with that id, left out when it is deleted and
\* withDeleted is not asked for.
findOne(table, id, withDeleted) ==
  IF id.n \in DOMAIN table /\ (withDeleted \/ table[id.n].deletedAt = NULL)
    THEN entityOf(id.n, table[id.n])
  ELSE NoEntity

\* productRepository.save(product): the row of the entity's id takes the
\* entity's columns; a new entity gets the next id.
save(table, entity) ==
  LET row == [name |-> entity.name, description |-> entity.description,
              tags |-> entity.tags, price |-> entity.price, deletedAt |-> entity.deletedAt]
  IN [i \in DOMAIN table \cup {entity.id} |-> IF i = entity.id THEN row ELSE table[i]]

\* softRemove that deletes the row.
hardRemove(table, entity) == [i \in DOMAIN table \ {entity.id} |-> table[i]]

\* productRepository.softRemove(product): deletedAt of the row is set.
softRemove(table, entity) ==
  [i \in DOMAIN table |-> IF i = entity.id THEN [table[i] EXCEPT !.deletedAt = DeletedDate]
                          ELSE table[i]]

\* restore that matches no row.
restoreNone(table, id) == table

\* productRepository.restore(id): deletedAt of the row with that id is cleared.
restore(table, id) ==
  [i \in DOMAIN table |-> IF i = id.n THEN [table[i] EXCEPT !.deletedAt = NULL] ELSE table[i]]

\* The requests of the product routes: the route, the :id of the path (NotUuid
\* on the routes without one) and the JSON body (EmptyBody where none is read).
ProductRequests ==
  {[route |-> "POST /products", id |-> NotUuid, body |-> b] : b \in CreateBodies}
  \cup {[route |-> r, id |-> NotUuid, body |-> EmptyBody] :
          r \in {"GET /products", "GET /products/deleted"}}
  \cup {[route |-> r, id |-> i, body |-> EmptyBody] :
          r \in {"GET /products/:id", "DELETE /products/:id", "PATCH /products/:id/restore"},
          i \in IdParams}
  \cup {[route |-> "PUT /products/:id", id |-> i, body |-> b] :
          i \in IdParams, b \in UpdateBodies}

\* The response bodies that are no product: none (204), JSON null, an error.
NoBody == [json |-> "none"]
JsonNull == [json |-> "null"]
ErrorBody(e) == [error |-> e]

\* No request is held by a handler slot.
Idle ==
  [route |-> "none", auth |-> NoHeader, id |-> NotUuid, body |-> EmptyBody, pc |-> "idle",
   product |-> NoEntity, status |-> 0, resBody |-> NoBody]

\* The handler slot of a request that has arrived.
NewHandler(r, a) == [Idle EXCEPT !.route = r.route, !.id = r.id, !.body = r.body,
                                 !.auth = a, !.pc = "received"]

\* res.status(st).json(body) in handler slot h.
respond(h, st, body) ==
  [handlers EXCEPT ![h].pc = "responded", ![h].status = st, ![h].resBody = body]

\* No invocation of suggestTags exists: the variables of a call hold nothing.
FreshInvocation ==
  /\ name' = <<>>
  /\ description' = <<>>
  /\ pc' = "idle"
  /\ requests' = 0
  /\ status' = 0
  /\ data' = NoData
  /\ parsed' = NotParsed
  /\ error' = "none"
  /\ ret' = Pending

\* The server is handling no request.
Quiescent ==
  /\ \A h \in DOMAIN handlers : handlers[h].pc = "idle"
  /\ http.phase = "none"

\* A request of a product route arrives at a server that handles one request
\* at a time. A POST arrives only while the table has room for a row.
Serve(r, a) ==
  /\ Quiescent
  /\ r.route = "POST /products" => Cardinality(DOMAIN products) < MaxProducts
  /\ handlers' = [handlers EXCEPT ![1] = NewHandler(r, a)]
  /\ UNCHANGED <<aiVars, products, uiVars>>

\* A POST /suggest-tags request arrives at a server that handles one request
\* at a time.
ServeSuggestTags(a, b) ==
  /\ Quiescent
  /\ http' = [phase |-> "received", auth |-> a, body |-> b, status |-> 0,
              resBody |-> [error |-> "none"]]
  /\ UNCHANGED <<name, description, pc, requests, status, data, parsed, error, ret, calls,
                 apiVars, uiVars>>

\* A request of a product route arrives in the free handler slot h while other
\* requests may be in progress.
Receive(h, r, a) ==
  /\ handlers[h].pc = "idle"
  /\ handlers' = [handlers EXCEPT ![h] = NewHandler(r, a)]
  /\ UNCHANGED <<aiVars, products, uiVars>>

\* The response of the request in slot h has been sent: the request, its
\* response and the handler's locals are gone.
Close(h) ==
  /\ handlers[h].pc = "responded"
  /\ handlers' = [handlers EXCEPT ![h] = Idle]
  /\ UNCHANGED <<aiVars, products, uiVars>>

\* The response of the POST /suggest-tags request has been sent: the request,
\* its AiService and the invocation of suggestTags are gone.
CloseSuggestTags ==
  /\ http.phase = "responded"
  /\ http' = NoRequest
  /\ FreshInvocation
  /\ UNCHANGED <<calls, apiVars, uiVars>>

\* authMiddleware runs for the request in slot h: it answers 401, or calls
\* next() and the route handler runs up to its first await.
Guard(h) ==
  /\ handlers[h].pc = "received"
  /\ handlers' =
       IF authMiddleware(handlers[h].auth) # 0
         THEN respond(h, authMiddleware(handlers[h].auth), ErrorBody("Unauthorized"))
       ELSE [handlers EXCEPT ![h].pc =
               IF handlers[h].route \in {"POST /products", "PUT /products/:id"}
                 THEN "validate" ELSE "find"]
  /\ UNCHANGED <<aiVars, products, uiVars>>

\* await validate(dto) resolves in slot h: 400 on errors; otherwise POST
\* creates the product and calls save, PUT calls findOne.
ValidateBody(h) ==
  /\ handlers[h].pc = "validate"
  /\ LET r == handlers[h]
         dto == IF r.route = "POST /products" THEN "CreateProductDto" ELSE "UpdateProductDto"
     IN handlers' =
          IF validateProduct(dto, r.body) # {}
            THEN respond(h, 400, ErrorBody("Validation failed"))
          ELSE IF r.route = "POST /products"
            THEN [handlers EXCEPT ![h].pc = "save", ![h].product = create(r.body)]
          ELSE [handlers EXCEPT ![h].pc = "find"]
  /\ UNCHANGED <<aiVars, products, uiVars>>

\* The status the global error handler answers when the query of findOne
\* fails in Postgres because the :id is no uuid.
queryFailed == globalErrorHandler(chars("invalid input syntax for type uuid"))

\* The awaited query of the handler in slot h resolves: find and the query of
\* deleted products answer with their lists; findOne rejects for an :id that
\* is no uuid (catch, next(error)), gives 404 when no product is found, and
\* otherwise GET answers with the product, PUT assigns the body and calls
\* save, DELETE calls softRemove, and restore answers 400 for a product
\* that is not deleted or calls restore.
Find(h) ==
  /\ handlers[h].pc = "find"
  /\ LET r == handlers[h]
         product == findOne(products, r.id, r.route = "PATCH /products/:id/restore")
     IN handlers' =
          CASE r.route = "GET /products" -> respond(h, 200, [list |-> find(products)])
            [] r.route = "GET /products/deleted" ->
                 respond(h, 200, [list |-> findDeleted(products)])
            [] OTHER ->
                 IF ~r.id.uuid THEN respond(h, queryFailed, ErrorBody("Internal Server Error"))
                 ELSE IF product = NoEntity THEN respond(h, 404, ErrorBody("Product not found"))
                 ELSE CASE r.route = "GET /products/:id" -> respond(h, 200, product)
                        [] r.route = "PUT /products/:id" ->
                             [handlers EXCEPT ![h].pc = "save",
                                              ![h].product = assign(product, r.body)]
                        [] r.route = "DELETE /products/:id" ->
                             [handlers EXCEPT ![h].pc = "save", ![h].product = product]
                        [] OTHER ->
                             IF product.deletedAt = NULL
                               THEN respond(h, 400, ErrorBody("Product not deleted"))
                             ELSE [handlers EXCEPT ![h].pc = "save", ![h].product = product]
  /\ UNCHANGED <<aiVars, products, uiVars>>

\* The awaited write of the handler in slot h resolves: save of POST inserts
\* the row under a new id and answers 201, save of PUT writes the row and
\* answers 200, softRemove answers 204, and after restore the handler calls
\* findOne again.
Save(h) ==
  /\ handlers[h].pc = "save"
  /\ LET r == handlers[h]
         saved == [r.product EXCEPT !.id = Cardinality(DOMAIN products) + 1]
     IN CASE r.route = "POST /products" ->
               /\ products' = save(products, saved)
               /\ handlers' = respond(h, 201, saved)
          [] r.route = "PUT /products/:id" ->
               /\ products' = save(products, r.product)
               /\ handlers' = respond(h, 200, r.product)
          [] r.route = "DELETE /products/:id" ->
               /\ products' = softRemove(products, r.product)
               /\ handlers' = respond(h, 204, NoBody)
          [] OTHER ->
               /\ products' = restore(products, r.id)
               /\ handlers' = [handlers EXCEPT ![h].pc = "reread"]
  /\ UNCHANGED <<aiVars, uiVars>>

\* The second findOne of the restore handler in slot h resolves and
\* res.json(restoredProduct) answers 200 with what it found.
Reread(h) ==
  /\ handlers[h].pc = "reread"
  /\ LET restoredProduct == findOne(products, handlers[h].id, FALSE)
     IN handlers' = respond(h, 200, IF restoredProduct = NoEntity THEN JsonNull
                                    ELSE restoredProduct)
  /\ UNCHANGED <<aiVars, products, uiVars>>

\* The bodies of the POST /suggest-tags requests served between product
\* requests: one that passes TagSuggestionDto and one without a name.
SuggestBodies ==
  { [name |-> jsString(chars("Bluetooth Speaker")), description |-> jsString(chars("Qwerty"))],
    [name |-> jsUndefined, description |-> jsString(chars("Qwerty"))] }

\* The server has started on an empty table.
ApiInit ==
  /\ name = <<>>
  /\ description = <<>>
  /\ pc = "idle"
  /\ requests = 0
  /\ status = 0
  /\ data = NoData
  /\ parsed = NotParsed
  /\ error = "none"
  /\ ret = Pending
  /\ http = NoRequest
  /\ calls = NoCalls
  /\ products = NoProducts
  /\ handlers = <<Idle>>
  /\ page = NoPage
  /\ localStorage = EmptyStorage

\* The API serving one request after the other.
ApiNext ==
  \/ \E r \in ProductRequests, a \in AuthHeaders : Serve(r, a)
  \/ \E a \in AuthHeaders, b \in SuggestBodies : ServeSuggestTags(a, b)
  \/ Guard(1)
  \/ ValidateBody(1)
  \/ Find(1)
  \/ Save(1)
  \/ Reread(1)
  \/ Close(1)
  \/ CloseSuggestTags
  \/ Authenticate
  \/ Validate
  \/ \E err \in FetchErrors : FetchRejects(err)
  \/ \E st \in Statuses : FetchResolves(st)
  \/ JsonRejects
  \/ \E d \in ConcBodies : JsonResolves(d)
  \/ Respond

ApiSpec == ApiInit /\ [][ApiNext]_vars

\* The header carries exactly "Bearer " followed by the configured token.
validBearer(a) == a.present /\ a.value = chars("Bearer ") \o SECRET_TOKEN

\* The columns of a row or entity that a client provides.
fields(p) == <<p.name, p.description, p.tags, p.price>>

\* C21: every product route and /suggest-tags is guarded by the bearer
\* token: a request whose Authorization header is absent, does not start
\* with "Bearer " or carries another token than SECRET_TOKEN is answered 401
\* and its handler never runs: it validates nothing, reads and writes no
\* product, and no suggestTags call or model request is made; only an exact
\* match lets the handler run.
C21_BearerGuard ==
  /\ [](\A h \in DOMAIN handlers :
          (handlers[h].pc # "idle" /\ ~validBearer(handlers[h].auth)) =>
            /\ handlers[h].pc \in {"received", "responded"}
            /\ handlers[h].pc = "responded" => handlers[h].status = 401
            /\ handlers[h].product = NoEntity)
  /\ []((http.phase # "none" /\ ~validBearer(http.auth)) =>
          /\ http.phase \in {"received", "responded"}
          /\ http.phase = "responded" => http.status = 401
          /\ pc = "idle" /\ requests = 0)
  /\ [][(\E h \in DOMAIN handlers :
           handlers'[h].pc # "idle" /\ ~validBearer(handlers'[h].auth))
          => products' = products]_vars

\* A DELETE of a product that is in the table, sent with a wrong token, has
\* been answered 401 and the product is still there.
C21_Witness ==
  /\ handlers[1].route = "DELETE /products/:id"
  /\ handlers[1].auth = Header(chars("Bearer wrong"))
  /\ handlers[1].pc = "responded"
  /\ handlers[1].status = 401
  /\ handlers[1].id.n \in DOMAIN products
  /\ products[handlers[1].id.n].deletedAt = NULL

\* C22: DELETE /products/:id is a soft delete: once it has answered 204 the
\* product is not among the products GET /products lists, GET /products/:id
\* finds nothing (404), and GET /products/deleted lists it with the name,
\* description, tags and price it had; what the three GET routes answer
\* agrees with this; and no step of any request removes a row of the table.
C22_SoftDelete ==
  /\ [](\A h \in DOMAIN handlers :
          LET r == handlers[h]
          IN /\ (r.route = "DELETE /products/:id" /\ r.pc = "responded" /\ r.status = 204) =>
                  /\ \A e \in find(products) : e.id # r.id.n
                  /\ findOne(products, r.id, FALSE) = NoEntity
                  /\ \E e \in findDeleted(products) :
                       e.id = r.id.n /\ fields(e) = fields(r.product)
             /\ (r.route = "GET /products" /\ r.pc = "responded" /\ r.status = 200) =>
                  \A e \in r.resBody.list : products[e.id].deletedAt = NULL
             /\ (r.route = "GET /products/deleted" /\ r.pc = "responded" /\ r.status = 200) =>
                  r.resBody.list = {entityOf(i, products[i]) :
                                      i \in {k \in DOMAIN products : products[k].deletedAt # NULL}}
             /\ (r.route = "GET /products/:id" /\ r.pc = "responded" /\ r.id.uuid
                   /\ r.id.n \in DOMAIN products /\ validBearer(r.auth)) =>
                  r.status = IF products[r.id.n].deletedAt # NULL THEN 404 ELSE 200)
  /\ [][DOMAIN products \subseteq DOMAIN products']_vars

\* A renamed product has been deleted with 204 and is in the table with
\* deletedAt set.
C22_Witness ==
  /\ handlers[1].route = "DELETE /products/:id"
  /\ handlers[1].pc = "responded"
  /\ handlers[1].status = 204
  /\ products[handlers[1].id.n].deletedAt # NULL
  /\ products[handlers[1].id.n].name = chars("Shade")

\* C23: delete followed by restore is a round trip: when PATCH
\* /products/:id/restore has answered 200, the product is listed by GET
\* /products and found by id with the id, name, description, tags and price
\* of the deleted row, and GET /products/deleted does not list it; and from
\* the step that deletes a product to the step that restores it, no step
\* changes its name, description, tags or price.
C23_DeleteRestoreRoundTrip ==
  /\ [](\A h \in DOMAIN handlers :
          LET r == handlers[h]
          IN (r.route = "PATCH /products/:id/restore" /\ r.pc = "responded" /\ r.status = 200) =>
               /\ r.resBody = [r.product EXCEPT !.deletedAt = NULL]
               /\ r.resBody.id = r.id.n
               /\ r.resBody \in find(products)
               /\ findOne(products, r.id, FALSE) = r.resBody
               /\ \A e \in findDeleted(products) : e.id # r.id.n)
  /\ [][\A i \in DOMAIN products :
          (products[i].deletedAt # NULL \/ products'[i].deletedAt # NULL) =>
            fields(products'[i]) = fields(products[i])]_vars

\* A renamed product that was deleted has been restored with 200.
C23_Witness ==
  /\ handlers[1].route = "PATCH /products/:id/restore"
  /\ handlers[1].pc = "responded"
  /\ handlers[1].status = 200
  /\ handlers[1].resBody.name = chars("Shade")
  /\ products[handlers[1].id.n].deletedAt = NULL

\* The product named by the :id is in the table; it is in it and not deleted.
exists(table, id) == id.uuid /\ id.n \in DOMAIN table
live(table, id) == exists(table, id) /\ table[id.n].deletedAt = NULL

\* C26: the lifecycle guards reject operations on a product in the wrong
\* state and leave the store unchanged: on the step that answers a request
\* with a valid token, GET, PUT and DELETE by id of a product that is deleted
\* or does not exist answer 404, restore of a product that does not exist
\* answers 404 and restore of a product that is not deleted answers 400, and
\* the table is as it was.
C26_LifecycleGuards ==
  [][\A h \in DOMAIN handlers :
       LET r == handlers[h]
           answered == handlers'[h].status
       IN (validBearer(r.auth) /\ r.pc \notin {"idle", "responded"}
             /\ handlers'[h].pc = "responded") =>
            /\ (r.route \in {"GET /products/:id", "PUT /products/:id", "DELETE /products/:id"}
                  /\ ~live(products, r.id)) => (answered = 404 /\ products' = products)
            /\ (r.route = "PATCH /products/:id/restore" /\ ~exists(products, r.id)) =>
                 (answered = 404 /\ products' = products)
            /\ (r.route = "PATCH /products/:id/restore" /\ live(products, r.id)) =>
                 (answered = 400 /\ products' = products)]_vars

\* A member of a body that the specification calls invalid for name or
\* description (missing, no string, empty, over-long), for tags (no array,
\* empty, an entry that is no string) and for price (no number, not
\* positive, more than 2 decimals).
textBad(value, max) == value.t # "string" \/ Len(value.v) = 0 \/ Len(value.v) > max
tagsBad(value) ==
  value.t # "array" \/ Len(value.v) = 0 \/ \E i \in 1..Len(value.v) : value.v[i].t # "string"
priceBad(value) == value.t # "number" \/ value.v <= 0 \/ value.v % 10 # 0

\* The body is invalid for the route: for POST one member is bad, for PUT one
\* provided member is.
invalidBody(route, body) ==
  LET provided(p) == route = "POST /products" \/ body[p].t # "undefined"
  IN \/ provided("name") /\ textBad(body.name, nameMaxLength)
     \/ provided("description") /\ textBad(body.description, descriptionMaxLength)
     \/ provided("tags") /\ tagsBad(body.tags)
     \/ provided("price") /\ priceBad(body.price)

\* C28: a create or update request that fails validation has no effect: a
\* POST /products or PUT /products/:id with an invalid body is answered 400
\* without reaching the repository, and a step of a POST or PUT request that
\* changes the table is the step that answers 201 (POST) or 200 (PUT) with
\* the product as it is stored, for a body that is valid.
C28_InvalidBodyNoEffect ==
  /\ [](\A h \in DOMAIN handlers :
          LET r == handlers[h]
          IN (r.route \in {"POST /products", "PUT /products/:id"} /\ validBearer(r.auth)
                /\ invalidBody(r.route, r.body)) =>
               /\ r.pc \in {"received", "validate", "responded"}
               /\ r.pc = "responded" => r.status = 400)
  /\ [][\A h \in DOMAIN handlers :
          LET r == handlers[h]
              after == handlers'[h]
          IN (r.route \in {"POST /products", "PUT /products/:id"} /\ products' # products) =>
               /\ ~invalidBody(r.route, r.body)
               /\ after.pc = "responded"
               /\ after.status = IF r.route = "POST /products" THEN 201 ELSE 200
               /\ after.resBody.id \in DOMAIN products'
               /\ after.resBody = entityOf(after.resBody.id, products'[after.resBody.id])
               /\ \A i \in DOMAIN products \ {after.resBody.id} : products'[i] = products[i]]_vars

\* A POST whose price has three decimals has been answered 400 and the table
\* has no row.
C28_Witness ==
  /\ handlers[1].route = "POST /products"
  /\ handlers[1].body.price = jsNum(1999)
  /\ handlers[1].pc = "responded"
  /\ handlers[1].status = 400
  /\ products = NoProducts

\* ---------------------------------------------------------------------------
\* Requests on one product that overlap: every await of a handler is a point
\* where the handler of another request may run.
\* ---------------------------------------------------------------------------

\* The number of requests the server has in progress at once.
MaxHandlers == 2

\* The product the overlapping requests name, as POST /products with
\* ValidBody has stored it.
StoredProduct == save(NoProducts, [create(ValidBody) EXCEPT !.id = 1])

\* The requests on that product's id: read, soft delete and restore.
RaceRequests ==
  {[route |-> r, id |-> Uuid(1), body |-> EmptyBody] :
     r \in {"GET /products/:id", "DELETE /products/:id", "PATCH /products/:id/restore"}}

\* The table holds the product, live or soft-deleted, and no request is in
\* progress.
RaceInit ==
  /\ name = <<>>
  /\ description = <<>>
  /\ pc = "idle"
  /\ requests = 0
  /\ status = 0
  /\ data = NoData
  /\ parsed = NotParsed
  /\ error = "none"
  /\ ret = Pending
  /\ http = NoRequest
  /\ calls = NoCalls
  /\ products \in {StoredProduct, softRemove(StoredProduct, entityOf(1, StoredProduct[1]))}
  /\ handlers = [h \in 1..MaxHandlers |-> Idle]
  /\ page = NoPage
  /\ localStorage = EmptyStorage

\* The API with requests in progress at once: a step is the arrival of a
\* request or the run of one handler from one await to its next.
RaceNext ==
  \E h \in 1..MaxHandlers :
    \/ \E r \in RaceRequests : Receive(h, r, Header(chars("Bearer ") \o SECRET_TOKEN))
    \/ Guard(h)
    \/ Find(h)
    \/ Save(h)
    \/ Reread(h)
    \/ Close(h)

RaceSpec == RaceInit /\ [][RaceNext]_vars

\* C27: under any interleaving of requests on the same product id, a 200
\* response of PATCH /products/:id/restore carries the restored product: a
\* product, not null, whose deletedAt is unset.
C27_RestoreAnswersProduct ==
  \A h \in DOMAIN handlers :
    (handlers[h].route = "PATCH /products/:id/restore" /\ handlers[h].pc = "responded"
       /\ handlers[h].status = 200) =>
      /\ handlers[h].resBody # JsonNull
      /\ handlers[h].resBody.deletedAt = NULL

\* ---------------------------------------------------------------------------
\* The login page of the frontend and the routes around it.
\* ---------------------------------------------------------------------------

\* What the user may have in the token input: the server's token, other
\* tokens and nothing, with and without blanks around them.
LoginTokens ==
  {l \o t \o r : l \in {<<>>, chars(" ")}, r \in {<<>>, chars(" ")},
                 t \in {<<>>, SECRET_TOKEN, chars("secret_token"), chars("wrong"),
                        chars("SECRET_TOKEN1"), chars("Bearer SECRET_TOKEN")}}

\* LoginPage as it mounts: the useState values, no handleSubmit in progress
\* (pc) and no token sent to the server.
MountedLoginPage ==
  [route |-> "/login", token |-> <<>>, error |-> "", isLoading |-> FALSE, pc |-> "idle",
   sent |-> <<>>]

\* localStorage.setItem("auth_token", token) and removeItem("auth_token").
setAuthToken(token) == [localStorage EXCEPT !.auth_token = [present |-> TRUE, value |-> token]]
clearAuthToken == [localStorage EXCEPT !.auth_token = NoItem]

\* !!localStorage.getItem("auth_token"): an item that is present and not "".
isAuthenticated(storage) == storage.auth_token.present /\ storage.auth_token.value # <<>>

\* The status GET /health answers a request with that Authorization header:
\* the route has no authMiddleware and answers res.json(...).
health(authHeader) == 200

\* The element a protected route renders at path `to`: its page for an
\* authenticated client, the login page otherwise.
ProtectedRoute(to, storage) ==
  IF isAuthenticated(storage) THEN [page EXCEPT !.route = to] ELSE MountedLoginPage

\* The user opens the application on its login page with an empty storage.
LoginInit ==
  /\ name = <<>>
  /\ description = <<>>
  /\ pc = "idle"
  /\ requests = 0
  /\ status = 0
  /\ data = NoData
  /\ parsed = NotParsed
  /\ error = "none"
  /\ ret = Pending
  /\ http = NoRequest
  /\ calls = NoCalls
  /\ products = NoProducts
  /\ handlers = NoHandlers
  /\ page = MountedLoginPage
  /\ localStorage = EmptyStorage

\* onChange of the token input, which is disabled while isLoading.
SetToken(value) ==
  /\ page.route = "/login"
  /\ ~page.isLoading
  /\ page' = [page EXCEPT !.token = value]
  /\ UNCHANGED <<aiVars, apiVars, localStorage>>

\* The form is submitted (the input is required, the button is disabled while
\* isLoading) and handleSubmit runs up to its await: a token that is blank
\* gives the error; otherwise the trimmed token is stored, the request to
\* /health is sent, and the render that the state updates cause finds
\* isAuthenticated() true and replaces the location by "/".
HandleSubmit ==
  /\ page.route = "/login"
  /\ ~page.isLoading
  /\ page.token # <<>>
  /\ IF trim(page.token) = <<>>
       THEN /\ page' = [page EXCEPT !.error = "Please enter a valid token", !.isLoading = FALSE]
            /\ UNCHANGED localStorage
     ELSE /\ localStorage' = setAuthToken(trim(page.token))
          /\ page' = [page EXCEPT !.error = "", !.isLoading = TRUE, !.pc = "awaitFetch",
                                  !.sent = chars("Bearer ") \o trim(page.token),
                                  !.route = "/"]
  /\ UNCHANGED <<aiVars, apiVars>>

\* The fetch of /health resolves with the server's answer: a status that is
\* not ok throws into the catch, an ok one navigates to /products.
HealthResolves ==
  /\ page.pc = "awaitFetch"
  /\ IF health(Header(page.sent)) \in 200..299
       THEN /\ page' = [ProtectedRoute("/products", localStorage)
                           EXCEPT !.isLoading = FALSE, !.pc = "settled"]
            /\ UNCHANGED localStorage
     ELSE /\ page' = [page EXCEPT !.isLoading = FALSE, !.pc = "settled",
                                  !.error = "Invalid token. Please check your token and try again."]
          /\ localStorage' = clearAuthToken
  /\ UNCHANGED <<aiVars, apiVars>>

\* The fetch of /health rejects (the server cannot be reached): the catch
\* sets the error and removes the token.
HealthRejects ==
  /\ page.pc = "awaitFetch"
  /\ page' = [page EXCEPT !.isLoading = FALSE, !.pc = "settled",
                       !.error = "Invalid token. Please check your token and try again."]
  /\ localStorage' = clearAuthToken
  /\ UNCHANGED <<aiVars, apiVars>>

\* The user follows the link to "/" of the layout once the sign-in has
\* settled: the protected route renders.
FollowLink ==
  /\ page.route \in {"/", "/products"}
  /\ page.pc = "settled"
  /\ page' = ProtectedRoute("/", localStorage)
  /\ UNCHANGED <<aiVars, apiVars, localStorage>>

\* handleLogout of the layout, once the sign-in has settled: the token is
\* removed and the login page mounts.
HandleLogout ==
  /\ page.route \in {"/", "/products"}
  /\ page.pc = "settled"
  /\ localStorage' = clearAuthToken
  /\ page' = MountedLoginPage
  /\ UNCHANGED <<aiVars, apiVars>>

LoginNext ==
  \/ \E value \in LoginTokens : SetToken(value)
  \/ HandleSubmit
  \/ HealthResolves
  \/ HealthRejects
  \/ FollowLink
  \/ HandleLogout

LoginSpec == LoginInit /\ [][LoginNext]_vars

\* C29: login rejects a wrong token: once the submit of a token that differs
\* from the server's SECRET_TOKEN has settled, the error is the 'Invalid
\* token' message, no token is in local storage and the location is not
\* /products.
C29_WrongTokenRejected ==
  (page.route # "none" /\ page.pc = "settled"
     /\ page.sent # chars("Bearer ") \o SECRET_TOKEN) =>
    /\ page.error = "Invalid token. Please check your token and try again."
    /\ ~isAuthenticated(localStorage)
    /\ page.route # "/products"

\* ---------------------------------------------------------------------------
\* The product form of the frontend and its tag suggestion.
\* ---------------------------------------------------------------------------

\* The most suggestion requests of one form that may be in flight.
MaxInFlight == 2

\* What the user may type into a field of the form.
FormValues == {<<>>, chars(" "), chars("Lamp"), chars("Shade ")}

\* The suggestedTags of a response of POST /suggest-tags.
SuggestedTagLists ==
  { <<chars("home")>>, <<chars("home"), chars("lamp")>>,
    <<chars("a"), chars("b"), chars("c")>> }

\* Array.prototype.join(sep): the elements with sep between them.
join(list, sep) ==
  LET RECURSIVE from(_)
      from(i) == IF i > Len(list) THEN <<>>
                 ELSE (IF i > 1 THEN sep ELSE <<>>) \o list[i] \o from(i + 1)
  IN from(1)

\* The Auto-Suggest button is never disabled by the pending request.
suggestDisabledNever(form) == form.isLoadingSuggestions

\* disabled of the Auto-Suggest button (no create or update is pending on
\* this form: handleSubmit is not among the actions).
suggestDisabled(form) == form.isLoadingSuggestions \/ form.mutation.status = "pending"

\* The form for a new product as it mounts: the useState values and the
\* idle tag suggestion mutation, no request in flight.
FormInit ==
  /\ name = <<>>
  /\ description = <<>>
  /\ pc = "idle"
  /\ requests = 0
  /\ status = 0
  /\ data = NoData
  /\ parsed = NotParsed
  /\ error = "none"
  /\ ret = Pending
  /\ http = NoRequest
  /\ calls = NoCalls
  /\ products = NoProducts
  /\ handlers = NoHandlers
  /\ page = [route |-> "/products/new",
             formData |-> [name |-> <<>>, description |-> <<>>, tags |-> <<>>, price |-> <<>>],
             isLoadingSuggestions |-> FALSE,
             mutation |-> [status |-> "idle", variables |-> [name |-> <<>>, description |-> <<>>],
                           data |-> <<>>],
             inFlight |-> 0]
  /\ localStorage = EmptyStorage

\* onChange of the input named field: setFormData(prev => ({...prev,
\* [name]: value})).
handleInputChange(field, value) ==
  /\ page.route = "/products/new"
  /\ page' = [page EXCEPT !.formData[field] = value]
  /\ UNCHANGED <<aiVars, apiVars, localStorage>>

\* onClick of the Auto-Suggest button while it is not disabled: without a
\* name or a description an alert is shown; otherwise isLoadingSuggestions
\* is set, mutate sends the trimmed name and description, and
\* isLoadingSuggestions is cleared.
handleSuggestTags ==
  /\ page.route = "/products/new"
  /\ ~suggestDisabled(page)
  /\ page.inFlight < MaxInFlight
  /\ trim(page.formData.name) # <<>>
  /\ trim(page.formData.description) # <<>>
  /\ page' = [page EXCEPT
                !.isLoadingSuggestions = FALSE,
                !.mutation = [status |-> "pending",
                              variables |-> [name |-> trim(page.formData.name),
                                             description |-> trim(page.formData.description)],
                              data |-> <<>>],
                !.inFlight = @ + 1]
  /\ UNCHANGED <<aiVars, apiVars, localStorage>>

\* The request resolves with suggestedTags: onSuccess of the mutation.
onSuccess(suggestedTags) ==
  /\ page.route = "/products/new"
  /\ page.inFlight > 0
  /\ page' = [page EXCEPT
                !.formData.tags = join(suggestedTags, chars(", ")),
                !.mutation.status = "success",
                !.mutation.data = suggestedTags,
                !.inFlight = @ - 1]
  /\ UNCHANGED <<aiVars, apiVars, localStorage>>

\* The request rejects: onError of the mutation logs the error.
onError ==
  /\ page.route = "/products/new"
  /\ page.inFlight > 0
  /\ page' = [page EXCEPT !.mutation.status = "error", !.inFlight = @ - 1]
  /\ UNCHANGED <<aiVars, apiVars, localStorage>>

FormNext ==
  \/ \E field \in {"name", "description", "tags", "price"}, value \in FormValues :
       handleInputChange(field, value)
  \/ handleSuggestTags
  \/ \E suggestedTags \in SuggestedTagLists : onSuccess(suggestedTags)
  \/ onError

FormSpec == FormInit /\ [][FormNext]_vars

\* C30: a completed tag suggestion changes only the tags field: the step on
\* which the request succeeds sets tags to the suggested tags joined by ", "
\* and leaves name, description and price as they are at that moment; the
\* step on which it fails changes no field; and the Auto-Suggest button is
\* disabled while a request is in flight, so that at most one is.
C30_SuggestionChangesOnlyTags ==
  /\ [](page.route = "/products/new" =>
          /\ page.inFlight <= 1
          /\ page.inFlight = 1 => suggestDisabled(page))
  /\ [][(page.route = "/products/new" /\ page'.inFlight < page.inFlight) =>
          IF page'.mutation.status = "success"
            THEN page'.formData =
                   [page.formData EXCEPT !.tags = join(page'.mutation.data, chars(", "))]
          ELSE page'.formData = page.formData]_vars

\* A suggestion has succeeded after the name was edited while the request
\* was in flight: the form holds the edited name and the joined tags.
C30_Witness ==
  /\ page.route = "/products/new"
  /\ page.mutation.status = "success"
  /\ page.mutation.variables.name = chars("Lamp")
  /\ page.formData.name = chars("Shade ")
  /\ page.formData.tags = chars("home, lamp")

====
